---- MODULE Spec2Model ----
(***************************************************************************)
(* A model of app.py: one Flask application with a Flask-SQLAlchemy        *)
(* extension, one mapped class (User), a schema created at import time     *)
(* and four view functions (index, user_list, user_create, user_detail).   *)
(*                                                                         *)
(* Every view function performs at most one operation on the database      *)
(* (a SELECT, a primary-key get, or the INSERT of a commit), and SQLite    *)
(* executes each such statement atomically, so one action per handled      *)
(* request, taken in any order, covers every interleaving of concurrent    *)
(* requests. The session is scoped to the request (application context)    *)
(* and is removed when the request ends.                                   *)
(***************************************************************************)
EXTENDS Integers, Sequences, FiniteSets, TLC

\* ------------------------------------------------------------------ bounds
\* Longest username (in characters) the model submits or stores.
MaxLen == 1
\* Most rows the user table holds when the process starts.
MaxRows == 2

\* The characters of usernames, as code points: "B" and "a" (the binary
\* collation puts every upper-case letter before every lower-case one).
Chars == {66, 97}
\* Strings are sequences of code points; the empty string is a string.
Usernames == UNION {[1..n -> Chars] : n \in 0..MaxLen}
Emails == {"a@x.com", "b@y.com"}
\* The ids of the rows present at startup.
Ids == 1..MaxRows
\* The ids requested from the detail view: 0, every possible id, one beyond.
RequestIds == 0..(MaxRows + 1)

\* ------------------------------------------------------------ the database
\* class User(db.Model): the table name is the snake_case class name.
ModelTables == {"user"}

\* A database is a set of tables [name, rows]; a row is [id, username, email].
Rows(d) == UNION {t.rows : t \in {x \in d : x.name = "user"}}

HasTable(d, n) == \E t \in d : t.name = n

SetRows(d, rows) == {IF t.name = "user" THEN [t EXCEPT !.rows = rows] ELSE t : t \in d}

\* The user tables a database file can hold at startup: primary key id
\* unique, username unique, every column set.
InitialStores ==
    UNION { UNION { { {[id |-> i, username |-> f[i], email |-> g[i]] : i \in S}
                      : g \in [S -> Emails] }
                    : f \in {h \in [S -> Usernames] :
                               \A i, j \in S : i # j => h[i] # h[j]} }
            : S \in {T \in SUBSET Ids : Cardinality(T) <= MaxRows} }

\* project.db either does not hold the table yet, or holds it with some rows.
InitialDbs == {{}} \cup {{[name |-> "user", rows |-> s]} : s \in InitialStores}

\* A mutation of create_all: drop every table and create it again.
CreateAll_recreate(d) == {[name |-> n, rows |-> {}] : n \in ModelTables}

\* db.create_all(): creates the tables of the models that the database does
\* not hold yet; a table that exists is not touched.
CreateAll(d) ==
    d \cup {[name |-> n, rows |-> {}] : n \in {m \in ModelTables : ~HasTable(d, m)}}

\* ------------------------------------------------------------ strings, urls
\* Comparison of two strings under SQLite's default (BINARY) collation:
\* code point by code point, a proper prefix first.
RECURSIVE Memcmp(_, _)
Memcmp(a, b) ==
    IF a = <<>> THEN (IF b = <<>> THEN 0 ELSE -1)
    ELSE IF b = <<>> THEN 1
    ELSE IF Head(a) < Head(b) THEN -1
    ELSE IF Head(a) > Head(b) THEN 1
    ELSE Memcmp(Tail(a), Tail(b))

\* str(id): the decimal digits of a non-negative integer.
RECURSIVE IntToStr(_)
IntToStr(n) == IF n < 10 THEN <<n>> ELSE IntToStr(n \div 10) \o <<n % 10>>

\* The <int:id> converter: int() of a string of digits.
RECURSIVE IntConverter(_)
IntConverter(s) ==
    IF s = <<>> THEN 0 ELSE 10 * IntConverter(SubSeq(s, 1, Len(s) - 1)) + s[Len(s)]

NoUrl == [path |-> "", arg |-> <<>>]

\* url_for("user_detail", id=...): /user/detail/<id>
UrlFor(endpoint, id) ==
    IF endpoint = "user_detail" THEN [path |-> "/user/detail", arg |-> IntToStr(id)]
    ELSE NoUrl

\* ---------------------------------------------------------------- responses
Response(status, template, location, users, user, error) ==
    [status |-> status, template |-> template, location |-> location,
     users |-> users, user |-> user, error |-> error]

RenderTemplate(template, users, user) == Response(200, template, NoUrl, users, user, "")

Redirect(location) == Response(302, "", location, <<>>, {}, "")

\* What Flask answers when a view raises. An HTTPException is its own
\* response (NotFound 404, BadRequestKeyError 400); in debug mode a
\* BadRequestKeyError is trapped and re-raised like any other exception.
\* Every other exception is an unhandled error: 500.
ErrorResponse(exc, dbg) ==
    IF exc = "NotFound" THEN Response(404, "", NoUrl, <<>>, {}, exc)
    ELSE IF exc = "BadRequestKeyError" /\ ~dbg THEN Response(400, "", NoUrl, <<>>, {}, exc)
    ELSE Response(500, "", NoUrl, <<>>, {}, exc)

\* ------------------------------------------------------------------ request
\* A submitted form maps each field to the list of values sent for it.
Forms == [username : {<<>>} \cup {<<u>> : u \in Usernames},
          email : {<<>>} \cup {<<e>> : e \in Emails}]

NoForm == [username |-> <<>>, email |-> <<>>]

Request(method, path, arg, form) ==
    [method |-> method, url |-> [path |-> path, arg |-> arg], form |-> form]

\* ------------------------------------------------------------------ session
\* A mutation of the form lookup: form.get(key), None for a missing field.
FormHas_get(form, key) == TRUE

\* request.form[key] raises BadRequestKeyError when the field was not sent.
FormHas(form, key) ==
    IF key = "username" THEN form.username # <<>> ELSE form.email # <<>>

\* The parameters the generated __init__ of User requires: Base mixes in
\* MappedAsDataclass, and none of id, username, email has init=False or a
\* default.
UserInitRequired == {"id", "username", "email"}

\* A mutation of the constructor: id excluded from __init__ (init=False).
UserInit_initFalse(kwargs) == IF {"username", "email"} \subseteq kwargs THEN "" ELSE "TypeError"

\* User(**kwargs): TypeError when a required parameter is not passed.
UserInit(kwargs) == IF UserInitRequired \subseteq kwargs THEN "" ELSE "TypeError"

\* db.session.add(user)
SessionAdd(pending, user) == pending \cup {user}

\* The integer primary key SQLite gives a row inserted without one.
NextRowid(rows) ==
    IF rows = {} THEN 1
    ELSE (CHOOSE m \in {r.id : r \in rows} : \A r \in rows : r.id <= m) + 1

\* A mutation of the commit: INSERT OR REPLACE on the unique username.
SessionCommit_replace(rows, pending) ==
    IF pending = {} THEN [rows |-> rows, id |-> 0, error |-> ""]
    ELSE LET p == CHOOSE x \in pending : TRUE
             kept == {r \in rows : r.username # p.username}
             id == NextRowid(rows)
         IN  [rows |-> kept \cup {[id |-> id, username |-> p.username, email |-> p.email]},
              id |-> id, error |-> ""]

\* db.session.commit(): flushes the pending object as one INSERT in one
\* transaction. The UNIQUE constraint on username rejects the INSERT
\* (IntegrityError) and nothing is written; otherwise the row is written
\* with the id the store assigns.
SessionCommit(rows, pending) ==
    IF pending = {} THEN [rows |-> rows, id |-> 0, error |-> ""]
    ELSE LET p == CHOOSE x \in pending : TRUE
         IN  IF \E r \in rows : r.username = p.username
             THEN [rows |-> rows, id |-> 0, error |-> "IntegrityError"]
             ELSE LET id == NextRowid(rows)
                  IN  [rows |-> rows \cup {[id |-> id, username |-> p.username,
                                            email |-> p.email]},
                       id |-> id, error |-> ""]

\* The session is removed when the application context of the request is
\* torn down: what was pending and not committed is discarded.
Teardown(pending) == {}

\* -------------------------------------------------------------------- views
Outcome(rows, resp, ops, pending) ==
    [rows |-> rows, resp |-> resp, ops |-> ops, pending |-> pending]

\* A mutation of the ordering: ORDER BY id.
RECURSIVE OrderBy_id(_)
OrderBy_id(rows) ==
    IF rows = {} THEN <<>>
    ELSE LET first == CHOOSE r \in rows : \A o \in rows : r.id <= o.id
         IN  <<first>> \o OrderBy_id(rows \ {first})

\* SELECT ... ORDER BY username: the rows, least username first.
RECURSIVE OrderBy(_)
OrderBy(rows) ==
    IF rows = {} THEN <<>>
    ELSE LET first == CHOOSE r \in rows :
                          \A o \in rows : Memcmp(r.username, o.username) <= 0
         IN  <<first>> \o OrderBy(rows \ {first})

\* A mutation of the lookup: the miss is not turned into NotFound.
GetOr404_noabort(rows, id, dbg) ==
    LET found == {r \in rows : r.id = id}
    IN  IF found = {} THEN ErrorResponse("AttributeError", dbg)
        ELSE RenderTemplate("user/detail.html", <<>>, found)

\* db.get_or_404(User, id) and the rendering of the row it returns: one
\* primary-key get; no row aborts with NotFound.
GetOr404(rows, id, dbg) ==
    LET found == {r \in rows : r.id = id}
    IN  IF found = {} THEN ErrorResponse("NotFound", dbg)
        ELSE RenderTemplate("user/detail.html", <<>>, found)

\* def index()
IndexView(rows, dbg) == Outcome(rows, RenderTemplate("index.html", <<>>, {}), <<>>, {})

\* def user_list()
UserListView(rows, dbg) ==
    Outcome(rows, RenderTemplate("user/list.html", OrderBy(rows), {}), <<"select">>, {})

\* A mutation of user_create: the constructor takes no id and the commit
\* replaces the row that holds the username.
UserCreateView_upsert(rows, method, form, dbg) ==
    IF method = "POST"
    THEN IF ~FormHas(form, "username") \/ ~FormHas(form, "email")
         THEN Outcome(rows, ErrorResponse("BadRequestKeyError", dbg), <<>>, {})
         ELSE LET exc == UserInit_initFalse({"username", "email"})
              IN  IF exc # ""
                  THEN Outcome(rows, ErrorResponse(exc, dbg), <<>>, {})
                  ELSE LET user == [username |-> form.username[1], email |-> form.email[1]]
                           c == SessionCommit_replace(rows, SessionAdd({}, user))
                       IN  Outcome(c.rows, Redirect(UrlFor("user_detail", c.id)),
                                   <<"construct", "add", "commit">>, {})
    ELSE Outcome(rows, RenderTemplate("user/create.html", <<>>, {}), <<>>, {})

\* def user_create()
UserCreateView(rows, method, form, dbg) ==
    IF method = "POST"
    THEN IF ~FormHas(form, "username") \/ ~FormHas(form, "email")
         THEN Outcome(rows, ErrorResponse("BadRequestKeyError", dbg), <<>>, {})
         ELSE LET exc == UserInit({"username", "email"})
              IN  IF exc # ""
                  THEN Outcome(rows, ErrorResponse(exc, dbg), <<>>, {})
                  ELSE LET user == [username |-> form.username[1], email |-> form.email[1]]
                           pending == SessionAdd({}, user)
                           c == SessionCommit(rows, pending)
                           ops == <<"construct", "add", "commit">>
                       IN  IF c.error # ""
                           THEN Outcome(c.rows, ErrorResponse(c.error, dbg), ops, pending)
                           ELSE Outcome(c.rows, Redirect(UrlFor("user_detail", c.id)),
                                        ops, {})
    ELSE Outcome(rows, RenderTemplate("user/create.html", <<>>, {}), <<>>, {})

\* def user_detail(id)
UserDetailView(rows, arg, dbg) ==
    Outcome(rows, GetOr404(rows, IntConverter(arg), dbg), <<"get">>, {})

\* -------------------------------------------------------------------- state
VARIABLES
    phase,      \* "startup" while the module is being imported, then "serving"
    debug,      \* app.debug
    db,         \* the database file
    session,    \* objects pending in a session that outlived its request
    last        \* the request handled last, the rows it found, the response

vars == <<phase, debug, db, session, last>>

NoRequest ==
    [req |-> Request("", "", <<>>, NoForm), pre |-> {},
     resp |-> Response(0, "", NoUrl, <<>>, {}, ""), ops |-> <<>>]

Init ==
    /\ phase = "startup"
    /\ debug \in BOOLEAN
    /\ db \in InitialDbs
    /\ session = {}
    /\ last = NoRequest

\* with app.app_context(): db.create_all()
create_all ==
    /\ phase = "startup"
    /\ db' = CreateAll(db)
    /\ phase' = "serving"
    /\ UNCHANGED <<debug, session, last>>

\* One request handled to its response, the teardown of its session included.
Handle(req, out) ==
    /\ phase = "serving"
    /\ db' = SetRows(db, out.rows)
    /\ session' = Teardown(out.pending)
    /\ last' = [req |-> req, pre |-> Rows(db), resp |-> out.resp, ops |-> out.ops]
    /\ UNCHANGED <<phase, debug>>

index == Handle(Request("GET", "/", <<>>, NoForm), IndexView(Rows(db), debug))

user_list == Handle(Request("GET", "/users", <<>>, NoForm), UserListView(Rows(db), debug))

user_create ==
    \E method \in {"GET", "POST"} : \E form \in Forms :
        /\ method = "GET" => form = NoForm
        /\ Handle(Request(method, "/users/create", <<>>, form),
                  UserCreateView(Rows(db), method, form, debug))

user_detail ==
    \E id \in RequestIds :
        Handle(Request("GET", "/user/detail", IntToStr(id), NoForm),
               UserDetailView(Rows(db), IntToStr(id), debug))

\* The process is stopped and started again on the same database file.
Restart ==
    /\ phase = "serving"
    /\ phase' = "startup"
    /\ last' = NoRequest
    /\ UNCHANGED <<debug, db, session>>

Next == create_all \/ index \/ user_list \/ user_create \/ user_detail \/ Restart

Spec == Init /\ [][Next]_vars

\* ------------------------------------------------------- request predicates
IsCreatePost(r) == r.method = "POST" /\ r.url.path = "/users/create"

\* A submission carrying both fields.
IsFullCreatePost(r) ==
    IsCreatePost(r) /\ r.form.username # <<>> /\ r.form.email # <<>>

IsList(r) == r.method = "GET" /\ r.url.path = "/users"

IsDetail(r) == r.method = "GET" /\ r.url.path = "/user/detail"

UsernameUsed(rows, u) == \E r \in rows : r.username = u

\* a sorts strictly before b, byte by byte: at the first position where they
\* differ a has the smaller code point, or a ends there and b does not.
BinaryLess(a, b) ==
    \E k \in 1..Len(b) :
        /\ k <= Len(a) + 1
        /\ \A m \in 1..(k - 1) : a[m] = b[m]
        /\ (k = Len(a) + 1 \/ a[k] < b[k])

\* ---------------------------------------------------------------------- C1
\* C1 (as claimed): a POST /users/create carrying username u and email e,
\* handled on a store with no record named u, is answered with a redirect,
\* and the detail view of the id in that redirect answers 200 with the
\* record (id, u, e), id a positive integer.
C1_CreateDetailRoundTrip ==
    (IsFullCreatePost(last.req) /\ ~UsernameUsed(last.pre, last.req.form.username[1]))
    => /\ last.resp.status = 302
       /\ last.resp.location.path = "/user/detail"
       /\ LET id == IntConverter(last.resp.location.arg)
              d == UserDetailView(Rows(db), last.resp.location.arg, debug).resp
          IN  /\ id > 0
              /\ d.status = 200
              /\ d.user = {[id |-> id, username |-> last.req.form.username[1],
                            email |-> last.req.form.email[1]]}

\* ---------------------------------------------------------------------- C2
\* C2: GET /users answers 200 with exactly the persisted records, each once,
\* in ascending order of username (binary collation); on the empty store the
\* list is empty and the answer is still 200.
C2_ListSortedComplete ==
    IsList(last.req)
    => LET users == last.resp.users
       IN  /\ last.resp.status = 200
           /\ last.resp.error = ""
           /\ Rows(db) = last.pre
           /\ {users[i] : i \in 1..Len(users)} = last.pre
           /\ Len(users) = Cardinality(last.pre)
           /\ \A i, j \in 1..Len(users) :
                  i < j => BinaryLess(users[i].username, users[j].username)
           /\ (last.pre = {} => users = <<>>)

\* The list view has answered on a store where the order of the usernames
\* is not the order of the ids.
C2_Witness ==
    /\ IsList(last.req)
    /\ last.resp.status = 200
    /\ \E r, s \in last.pre : r.id < s.id /\ BinaryLess(s.username, r.username)

\* ---------------------------------------------------------------------- C3
\* C3 (as claimed): no two records share a username, and a POST
\* /users/create whose username an existing record has fails with a
\* constraint violation (IntegrityError), answered as a server error, and
\* leaves the store as it was, with exactly one row of that username.
C3_DuplicateRejectedByConstraint ==
    /\ \A r, s \in Rows(db) : r.username = s.username => r = s
    /\ (IsFullCreatePost(last.req) /\ UsernameUsed(last.pre, last.req.form.username[1]))
       => /\ last.resp.status = 500
          /\ last.resp.error = "IntegrityError"
          /\ Rows(db) = last.pre
          /\ Cardinality({r \in Rows(db) : r.username = last.req.form.username[1]}) = 1

\* ---------------------------------------------------------------------- C4
\* C4 (as claimed): of two POST /users/create requests with the same unused
\* username whose writes reach the store one right after the other, exactly
\* one is redirected, the other fails with a constraint violation, and the
\* store ends with exactly one record of that username.
C4_ConcurrentSameUsername ==
    [][ ( /\ IsFullCreatePost(last.req)
          /\ IsFullCreatePost(last'.req)
          /\ last'.req.form.username = last.req.form.username
          /\ last'.pre = Rows(db)
          /\ ~UsernameUsed(last.pre, last.req.form.username[1]) )
        => /\ last.resp.status = 302
           /\ last'.resp.status = 500
           /\ last'.resp.error = "IntegrityError"
           /\ Cardinality({r \in Rows(db') :
                             r.username = last.req.form.username[1]}) = 1 ]_vars

C6_RedirectToAssignedId ==
    (IsFullCreatePost(last.req) /\ ~UsernameUsed(last.pre, last.req.form.username[1]))
    => /\ last.resp.status = 302
       /\ last.resp.template = ""
       /\ last.ops = <<"construct", "add", "commit">>
       /\ last.resp.location.path = "/user/detail"
       /\ LET id == IntConverter(last.resp.location.arg)
          IN  /\ id > 0
              /\ last.resp.location.arg = IntToStr(id)
              /\ \A r \in last.pre : r.id # id
              /\ Rows(db) = last.pre \cup {[id |-> id,
                                            username |-> last.req.form.username[1],
                                            email |-> last.req.form.email[1]]}
              /\ ({r.id : r \in last.pre} = {1} => id = 2)

\* ---------------------------------------------------------------------- C7
\* C7 (as claimed): a POST /users/create lacking username or email raises
\* while the form is read, is answered 500, and performs no store operation.
C7_MissingFieldIs500 ==
    (IsCreatePost(last.req) /\ ~IsFullCreatePost(last.req))
    => /\ last.resp.status = 500
       /\ last.resp.error = "BadRequestKeyError"
       /\ last.ops = <<>>
       /\ Rows(db) = last.pre

\* C7 (amended): a POST /users/create lacking username or email raises a
\* bad-request key error while the form is read; it is answered 400, and
\* 500 only when the application runs in debug mode; no record is
\* constructed, added or committed and the store is unchanged.
C7_MissingFieldIs400 ==
    (IsCreatePost(last.req) /\ ~IsFullCreatePost(last.req))
    => /\ last.resp.status = (IF debug THEN 500 ELSE 400)
       /\ last.resp.error = "BadRequestKeyError"
       /\ last.ops = <<>>
       /\ session = {}
       /\ Rows(db) = last.pre

\* A submission without email has been answered 400 on a non-empty store.
C7_Witness ==
    /\ IsCreatePost(last.req)
    /\ last.req.form.username # <<>>
    /\ last.req.form.email = <<>>
    /\ ~debug
    /\ last.resp.status = 400
    /\ last.pre # {}

\* ---------------------------------------------------------------------- C8
\* C8: create_all, run at startup, leaves a database that holds the user
\* table exactly as it was, keeps every row in any case, gives a database on
\* which running it again changes nothing, and has run before any request
\* is handled.
C8_CreateAllIdempotent ==
    [][ /\ (phase = "startup" /\ phase' = "serving")
           => /\ (HasTable(db, "user") => db' = db)
              /\ Rows(db') = Rows(db)
              /\ HasTable(db', "user")
              /\ CreateAll(db') = db'
        /\ (last' # last /\ last' # NoRequest)
           => (phase = "serving" /\ HasTable(db, "user")) ]_vars

\* create_all has just run on a database that already held rows.
C8_Witness ==
    /\ phase = "serving"
    /\ last = NoRequest
    /\ Cardinality(Rows(db)) = MaxRows

\* ---------------------------------------------------------------------- C9
\* C9: a step changes the persisted records only by handling a POST
\* /users/create that is answered with a redirect, and then by adding
\* exactly one record; every step keeps every persisted record as it is.
C9_StoreFrame ==
    [][ /\ Rows(db) \subseteq Rows(db')
        /\ (Rows(db') # Rows(db))
           => /\ IsFullCreatePost(last'.req)
              /\ last'.resp.status = 302
              /\ Cardinality(Rows(db')) = Cardinality(Rows(db)) + 1
        /\ (last' # last /\ last' # NoRequest /\ last'.resp.status # 302)
           => Rows(db') = Rows(db) ]_vars

\* A POST /users/create naming an existing username has failed on a store
\* that still holds what it held.
C9_Witness ==
    /\ IsFullCreatePost(last.req)
    /\ UsernameUsed(last.pre, last.req.form.username[1])
    /\ last.resp.status = 500
    /\ Rows(db) = last.pre

\* --------------------------------------------------------------------- C10
\* C10 (as claimed): once a POST /users/create has failed, no pending
\* record is left in any session, and a POST /users/create handled next
\* with both fields and an unused username is redirected and inserts its
\* own record and nothing else.
C10_FailureDoesNotLeak ==
    [][ ( /\ IsCreatePost(last.req)
          /\ last.resp.status # 302
          /\ IsFullCreatePost(last'.req)
          /\ last'.pre = Rows(db)
          /\ ~UsernameUsed(Rows(db), last'.req.form.username[1]) )
        => /\ session = {}
           /\ last'.resp.status = 302
           /\ \E id \in 1..(Cardinality(Rows(db)) + MaxRows + 1) :
                  Rows(db') = Rows(db) \cup {[id |-> id,
                                              username |-> last'.req.form.username[1],
                                              email |-> last'.req.form.email[1]]} ]_vars

====
